---- MODULE Spec2Model ----
(***************************************************************************)
(* Model of cmd/microcloud/services.go: the "service add" workflow         *)
(* (cmdServiceAdd.Run) and the "service list" workflow                     *)
(* (cmdServiceList.Run).                                                   *)
(*                                                                         *)
(* Spec      the add workflow,  one step of Run per action                 *)
(* SpecList  the list workflow, one step of each per-Service task per      *)
(*           action                                                        *)
(*                                                                         *)
(* Go maps are functions; a lookup of an absent key yields the zero value  *)
(* (MapGet).  The order of a Go "range" over a map is not specified: the   *)
(* loops pick any element not visited yet.                                 *)
(***************************************************************************)
EXTENDS Integers, Sequences, FiniteSets, TLC

VARIABLES
    pc,                    \* position of cmdServiceAdd.Run
    err,                   \* the error Run returns ("nil" when none)
    installedServices,     \* installedServices, as a set of ServiceType
    handler,               \* s: [Name, Services], Services the set of types
    services,              \* services: ServiceType -> version
    state,                 \* cfg.state: name -> SystemInformation
    systems,               \* cfg.systems: name -> InitSystem
    sysVisited,            \* elements of cfg.systems the loop of line 303 has visited
    valVisited,            \* elements of cfg.state the loop of line 318 has visited
    askClusteredServices,  \* askClusteredServices: ServiceType -> version
    serviceMap,            \* serviceMap: ServiceType -> bool
    calls,                 \* history: the external phases invoked, in order
    confirmArg,            \* history: the delta handed to askClustered
    lpc,                   \* position of cmdServiceList.Run
    lerr,                  \* the error cmdServiceList.Run returns
    lservices,             \* the Services of the list handler
    tpc,                   \* per Service: position of its task
    tdata,                 \* per Service: the task's local "data"
    treply,                \* history, per Service: the last answer of its backend:
                           \* the call, its error and the member ids it reported
    terr,                  \* per Service: the error the task returned
    mu,                    \* the mutex: its holder, or "free"
    allClusters,           \* allClusters: ServiceType -> rows
    printed                \* the keys of allClusters reported so far

addVars == <<pc, err, installedServices, handler, services, state, systems,
             sysVisited, valVisited, askClusteredServices, serviceMap, calls,
             confirmArg>>
listVars == <<lpc, lerr, lservices, tpc, tdata, treply, terr, mu, allClusters,
              printed>>
vars == <<addVars, listVars>>

----------------------------------------------------------------------------
(* Bounds *)

\* peers of the local node that can appear in its MicroCloud membership
MaxPeers == 2
\* size of a fully formed LXD cluster
MaxMembers == 3
\* members a listed backend reports
MaxListMembers == 2

----------------------------------------------------------------------------
(* Service types (api/types) and Go map helpers *)

MicroCloud == "MicroCloud"
LXD == "LXD"
MicroCeph == "MicroCeph"
MicroOVN == "MicroOVN"

ServiceTypes == {MicroCloud, LXD, MicroCeph, MicroOVN}

\* optionalServices of lines 258-261 and 90-93
optionalServices == {MicroCeph, MicroOVN}

NodeNames == <<"a", "b", "c", "d", "e", "f">>
LocalName == NodeNames[1]
Peers == {NodeNames[i] : i \in 2..(MaxPeers + 1)}

EmptyMap == <<>>

\* m[k] of a Go map: the zero value when k is absent
MapGet(m, k, zero) == IF k \in DOMAIN m THEN m[k] ELSE zero

\* m[k] = v of a Go map
MapPut(m, k, v) == [x \in (DOMAIN m) \cup {k} |-> IF x = k THEN v ELSE m[x]]

\* len(m)
MapLen(m) == Cardinality(DOMAIN m)

AddressOf(name) == <<"addr", name>>

\* a membership map name -> address over the names S
Membership(S) == [n \in S |-> AddressOf(n)]

FirstNames(k) == {NodeNames[i] : i \in 1..k}

----------------------------------------------------------------------------
(* What the collaborators of the add workflow can answer *)

NoError == "nil"
ErrCheckInitialized == "checkInitialized failed"
ErrApp == "microcluster.App failed"
ErrStatus == "Failed to get MicroCloud status"
ErrAskAddress == "askAddress failed"
ErrAskMissingServices == "askMissingServices failed"
ErrNewHandler == "service.NewHandler failed"
ErrGetVersion == "GetVersion failed"
ErrCollectLocal == "CollectSystemInformation failed for the local node"
ErrCollectPeer == "CollectSystemInformation failed for a peer"
ErrInconsistent == "Unable to add services. Some systems are not part of the LXD cluster"
ErrAlreadySetUp == "All services have already been set up"
ErrAskClustered == "askClustered failed"
ErrAskDisks == "askDisks failed"
ErrAskNetwork == "askNetwork failed"
ErrSetupCluster == "setupCluster failed"

\* Service.GetVersion: the version the local backend of a type reports
GetVersion(t) ==
    CASE t = MicroCloud -> "2.1.0"
      [] t = LXD -> "5.21.2"
      [] t = MicroCeph -> "19.2.0"
      [] t = MicroOVN -> "24.03.2"

\* memberships a node can report for LXD: none, a partial and a full cluster
LXDMemberships ==
    {Membership(FirstNames(k)) : k \in {0, MaxMembers - 1, MaxMembers}}

\* memberships a node can report for MicroCeph or MicroOVN
OptMemberships == {Membership({}), Membership(FirstNames(MaxMembers))}

\* memberships the local node can report for MicroCloud itself
CloudMemberships ==
    {Membership({LocalName} \cup S) : S \in SUBSET (Peers \cup {""})}

\* Handler.CollectSystemInformation: the SystemInformation values a node can
\* answer to a query made with the ServerInfo info.  A type that is not in
\* info.Services is not queried and has no entry.
CollectSystemInformation(info, clouds) ==
    {[ExistingServices |->
        [t \in DOMAIN info.Services |->
            CASE t = MicroCloud -> mc
              [] t = LXD -> l
              [] t = MicroCeph -> c
              [] t = MicroOVN -> o]] :
        mc \in clouds, l \in LXDMemberships,
        c \in OptMemberships, o \in OptMemberships}

\* state.ExistingServices[t]
ExistingServices(st, t) == MapGet(st.ExistingServices, t, EmptyMap)

----------------------------------------------------------------------------
(* cmdServiceAdd.Run *)

InitAdd ==
    /\ pc = "start"
    /\ err = NoError
    /\ installedServices = {}
    /\ handler = [Name |-> "", Services |-> {}]
    /\ services = EmptyMap
    /\ state = EmptyMap
    /\ systems = EmptyMap
    /\ sysVisited = {}
    /\ valVisited = {}
    /\ askClusteredServices = EmptyMap
    /\ serviceMap = EmptyMap
    /\ calls = <<>>
    /\ confirmArg = EmptyMap

\* Abort with the "return" missing: the error is kept and Run goes on
MutAbortNoReturn(e) ==
    /\ pc' = pc
    /\ err' = e

\* a step that returns its error: Run returns it at once
Abort(e) ==
    /\ pc' = "Aborted"
    /\ err' = e

\* lines 215-217
CheckArgs ==
    /\ pc = "start"
    /\ UNCHANGED listVars
    /\ \E nargs \in 0..1 :
          pc' = IF nargs # 0 THEN "Help" ELSE "checkInitialized"
    /\ UNCHANGED <<err, installedServices, handler, services, state, systems,
                   sysVisited, valVisited, askClusteredServices, serviceMap,
                   calls, confirmArg>>

\* a call of lines 220-254 whose only effect on Run is its error
SimpleStep(at, e, next) ==
    /\ pc = at
    /\ UNCHANGED listVars
    /\ \E ok \in BOOLEAN :
          IF ok THEN pc' = next /\ err' = err ELSE Abort(e)
    /\ UNCHANGED <<installedServices, handler, services, state, systems,
                   sysVisited, valVisited, askClusteredServices, serviceMap,
                   calls, confirmArg>>

\* lines 219-223
CheckInitialized == SimpleStep("checkInitialized", ErrCheckInitialized, "app")

\* lines 236-239
App == SimpleStep("app", ErrApp, "status")

\* lines 242-248
Status == SimpleStep("status", ErrStatus, "askAddress")

\* lines 250-254
AskAddress == SimpleStep("askAddress", ErrAskAddress, "askMissingServices")

\* lines 256-267: the optional services that are installed are appended
AskMissingServices ==
    /\ pc = "askMissingServices"
    /\ UNCHANGED listVars
    /\ \/ /\ \E found \in SUBSET optionalServices :
                installedServices' = {MicroCloud, LXD} \cup found
          /\ pc' = "newHandler"
          /\ err' = err
       \/ /\ Abort(ErrAskMissingServices)
          /\ UNCHANGED installedServices
    /\ UNCHANGED <<handler, services, state, systems, sysVisited, valVisited,
                   askClusteredServices, serviceMap, calls, confirmArg>>

\* lines 270-273
NewHandler ==
    /\ pc = "newHandler"
    /\ UNCHANGED listVars
    /\ \/ /\ handler' = [Name |-> LocalName, Services |-> installedServices]
          /\ pc' = "getVersion"
          /\ err' = err
       \/ /\ Abort(ErrNewHandler)
          /\ UNCHANGED handler
    /\ UNCHANGED <<installedServices, services, state, systems, sysVisited,
                   valVisited, askClusteredServices, serviceMap, calls,
                   confirmArg>>

\* lines 276-283: one iteration of the loop over s.Services
GetVersionStep ==
    /\ pc = "getVersion"
    /\ UNCHANGED listVars
    /\ \E t \in handler.Services \ DOMAIN services :
          \/ /\ services' = MapPut(services, t, GetVersion(t))
             /\ pc' = pc
             /\ err' = err
          \/ /\ Abort(ErrGetVersion)
             /\ UNCHANGED services
    /\ UNCHANGED <<installedServices, handler, state, systems, sysVisited,
                   valVisited, askClusteredServices, serviceMap, calls,
                   confirmArg>>

\* multicast.ServerInfo{Name, Address, Services} of lines 285 and 295-299
ServerInfo(name, svc) ==
    [Name |-> name, Address |-> AddressOf(name), Services |-> svc]

\* lines 292-301: cfg.systems from the local node's MicroCloud membership
SystemsOf(clusters, svc) ==
    [name \in DOMAIN MapGet(clusters, MicroCloud, EmptyMap) |->
        [ServerInfo |-> [Name |-> name,
                         Address |-> clusters[MicroCloud][name],
                         Services |-> svc]]]

\* lines 285-301, once the loop over s.Services is done
CollectLocal ==
    /\ pc = "getVersion"
    /\ UNCHANGED listVars
    /\ DOMAIN services = handler.Services
    /\ \/ /\ \E st \in CollectSystemInformation(ServerInfo(LocalName, services),
                                               CloudMemberships) :
                /\ state' = MapPut(state, LocalName, st)
                /\ systems' = SystemsOf(st.ExistingServices, services)
          /\ pc' = "collectPeers"
          /\ err' = err
       \/ /\ Abort(ErrCollectLocal)
          /\ UNCHANGED <<state, systems>>
    /\ UNCHANGED <<installedServices, handler, services, sysVisited,
                   valVisited, askClusteredServices, serviceMap, calls,
                   confirmArg>>

\* SkipSystem skipping every system: no peer is collected
MutSkipSystemAlways(system) == TRUE

\* SkipSystem without the test for the local name
MutSkipSystemEmptyOnly(system) == system.ServerInfo.Name = ""

\* lines 304-306
SkipSystem(system) ==
    system.ServerInfo.Name = "" \/ system.ServerInfo.Name = LocalName

\* lines 303-314: one iteration of the loop over cfg.systems
CollectPeer ==
    /\ pc = "collectPeers"
    /\ UNCHANGED listVars
    /\ \E key \in DOMAIN systems \ sysVisited :
          LET system == systems[key] IN
          IF SkipSystem(system)
          THEN /\ sysVisited' = sysVisited \cup {key}
               /\ UNCHANGED <<state, pc, err>>
          ELSE \/ /\ \E st \in CollectSystemInformation(system.ServerInfo,
                          {ExistingServices(state[LocalName], MicroCloud)}) :
                        state' = MapPut(state, system.ServerInfo.Name, st)
                  /\ sysVisited' = sysVisited \cup {key}
                  /\ UNCHANGED <<pc, err>>
               \/ /\ Abort(ErrCollectPeer)
                  /\ UNCHANGED <<state, sysVisited>>
    /\ UNCHANGED <<installedServices, handler, services, systems, valVisited,
                   askClusteredServices, serviceMap, calls, confirmArg>>

----------------------------------------------------------------------------
(* The validation loop of lines 316-337 *)

\* AskIfUnclustered with the test of the membership inverted
MutAskIfClustered(acc, st, t, svc) ==
    IF MapLen(ExistingServices(st, t)) > 0 /\ ~MapGet(acc.serviceMap, t, FALSE)
    THEN [acc EXCEPT !.ask = MapPut(acc.ask, t, MapGet(svc, t, "")),
                     !.serviceMap = MapPut(acc.serviceMap, t, TRUE)]
    ELSE acc

\* AskIfUnclustered without the serviceMap flag, a state with members of type
\* t taking t out again
MutAskLastStateWins(acc, st, t, svc) ==
    IF MapLen(ExistingServices(st, t)) <= 0
    THEN [acc EXCEPT !.ask = MapPut(acc.ask, t, MapGet(svc, t, ""))]
    ELSE [acc EXCEPT !.ask = [x \in (DOMAIN acc.ask) \ {t} |-> acc.ask[x]]]

\* AskIfUnclustered recording the version found under another key of the
\* version map
MutAskOtherVersion(acc, st, t, svc) ==
    IF MapLen(ExistingServices(st, t)) <= 0 /\ ~MapGet(acc.serviceMap, t, FALSE)
    THEN [acc EXCEPT !.ask = MapPut(acc.ask, t, MapGet(svc, MicroCloud, "")),
                     !.serviceMap = MapPut(acc.serviceMap, t, TRUE)]
    ELSE acc

\* lines 324-327 and 329-332: the first state seen with no member of type t
\* puts t in askClusteredServices with the local version of t
AskIfUnclustered(acc, st, t, svc) ==
    IF MapLen(ExistingServices(st, t)) <= 0 /\ ~MapGet(acc.serviceMap, t, FALSE)
    THEN [acc EXCEPT !.ask = MapPut(acc.ask, t, MapGet(svc, t, "")),
                     !.serviceMap = MapPut(acc.serviceMap, t, TRUE)]
    ELSE acc

\* NotInLXDCluster without the test for an empty membership
MutNotInLXDClusterSizeOnly(st, localState) ==
    MapLen(ExistingServices(st, LXD)) # MapLen(ExistingServices(localState, LXD))

\* line 320: the LXD membership of st differs in size from the local one or
\* is empty
NotInLXDCluster(st, localState) ==
    \/ MapLen(ExistingServices(st, LXD)) # MapLen(ExistingServices(localState, LXD))
    \/ MapLen(ExistingServices(st, LXD)) <= 0

\* lines 319-332: the body of the loop, for one state of cfg.state
ValidateStep(acc, st, localState, svc) ==
    IF NotInLXDCluster(st, localState)
    THEN [acc EXCEPT !.err = ErrInconsistent]
    ELSE AskIfUnclustered(AskIfUnclustered(acc, st, MicroCeph, svc),
                          st, MicroOVN, svc)

\* CheckEmpty without the test for an empty delta
MutCheckEmptyNever(acc) == acc

\* lines 335-337
CheckEmpty(acc) ==
    IF MapLen(acc.ask) = 0 THEN [acc EXCEPT !.err = ErrAlreadySetUp] ELSE acc

\* lines 316-337 as a whole, cfg.state being ranged over in the order given:
\* the loop returns at the first state that fails line 320
RECURSIVE ValidateFrom(_, _, _, _, _, _)
ValidateFrom(acc, collected, order, i, localName, svc) ==
    IF acc.err # NoError THEN acc
    ELSE IF i > Len(order) THEN CheckEmpty(acc)
    ELSE ValidateFrom(ValidateStep(acc, collected[order[i]],
                                   collected[localName], svc),
                      collected, order, i + 1, localName, svc)

\* lines 316-317
NewAcc == [ask |-> EmptyMap, serviceMap |-> EmptyMap, err |-> NoError]

Validator(collected, order, localName, svc) ==
    ValidateFrom(NewAcc, collected, order, 1, localName, svc)

\* one iteration of the loop of line 318
Validate ==
    /\ pc = "collectPeers"
    /\ UNCHANGED listVars
    /\ sysVisited = DOMAIN systems
    /\ \E name \in DOMAIN state \ valVisited :
          LET acc == ValidateStep([ask |-> askClusteredServices,
                                   serviceMap |-> serviceMap,
                                   err |-> NoError],
                                  state[name], state[handler.Name], services)
          IN  /\ askClusteredServices' = acc.ask
              /\ serviceMap' = acc.serviceMap
              /\ valVisited' = valVisited \cup {name}
              /\ IF acc.err # NoError
                 THEN Abort(acc.err)
                 ELSE UNCHANGED <<pc, err>>
    /\ UNCHANGED <<installedServices, handler, services, state, systems,
                   sysVisited, calls, confirmArg>>

\* lines 335-337, once the loop of line 318 is done
CheckDelta ==
    /\ pc = "collectPeers"
    /\ UNCHANGED listVars
    /\ sysVisited = DOMAIN systems
    /\ valVisited = DOMAIN state
    /\ LET acc == CheckEmpty([ask |-> askClusteredServices,
                              serviceMap |-> serviceMap, err |-> NoError])
       IN  IF acc.err # NoError
           THEN Abort(acc.err)
           ELSE pc' = "askClustered" /\ err' = err
    /\ UNCHANGED <<installedServices, handler, services, state, systems,
                   sysVisited, valVisited, askClusteredServices, serviceMap,
                   calls, confirmArg>>

----------------------------------------------------------------------------
(* The external phases of lines 339-359 *)

\* Phase with the error of the phase not returned: Run goes on
MutPhaseGoesOn(name, e, next) ==
    /\ calls' = Append(calls, name)
    /\ pc' = next
    /\ \E ok \in BOOLEAN : err' = IF ok THEN err ELSE e

\* Phase with a failed phase sending Run back to the confirmation
MutPhaseAsksAgain(name, e, next) ==
    /\ \E ok \in BOOLEAN :
          IF ok THEN pc' = next /\ calls' = Append(calls, name)
                ELSE pc' = "askClustered" /\ calls' = calls
    /\ err' = err

\* an external phase is invoked and returns nil or its error
Phase(name, e, next) ==
    /\ calls' = Append(calls, name)
    /\ \E ok \in BOOLEAN :
          IF ok THEN pc' = next /\ err' = err ELSE Abort(e)

\* lines 339-342
AskClustered ==
    /\ pc = "askClustered"
    /\ UNCHANGED listVars
    /\ confirmArg' = askClusteredServices
    /\ Phase("askClustered", ErrAskClustered, "askDisks")
    /\ UNCHANGED <<installedServices, handler, services, state, systems,
                   sysVisited, valVisited, askClusteredServices, serviceMap>>

\* the condition of lines 345 and 352
Wanted(ask, t) == MapGet(ask, t, "") # ""

\* lines 345-350
AskDisks ==
    /\ pc = "askDisks"
    /\ UNCHANGED listVars
    /\ IF Wanted(askClusteredServices, MicroCeph)
       THEN Phase("askDisks", ErrAskDisks, "askNetwork")
       ELSE pc' = "askNetwork" /\ UNCHANGED <<err, calls>>
    /\ UNCHANGED <<installedServices, handler, services, state, systems,
                   sysVisited, valVisited, askClusteredServices, serviceMap,
                   confirmArg>>

\* lines 352-357
AskNetwork ==
    /\ pc = "askNetwork"
    /\ UNCHANGED listVars
    /\ IF Wanted(askClusteredServices, MicroOVN)
       THEN Phase("askNetwork", ErrAskNetwork, "setupCluster")
       ELSE pc' = "setupCluster" /\ UNCHANGED <<err, calls>>
    /\ UNCHANGED <<installedServices, handler, services, state, systems,
                   sysVisited, valVisited, askClusteredServices, serviceMap,
                   confirmArg>>

\* line 359
SetupCluster ==
    /\ pc = "setupCluster"
    /\ UNCHANGED listVars
    /\ Phase("setupCluster", ErrSetupCluster, "Done")
    /\ UNCHANGED <<installedServices, handler, services, state, systems,
                   sysVisited, valVisited, askClusteredServices, serviceMap,
                   confirmArg>>

NextAdd ==
    \/ CheckArgs
    \/ CheckInitialized
    \/ App
    \/ Status
    \/ AskAddress
    \/ AskMissingServices
    \/ NewHandler
    \/ GetVersionStep
    \/ CollectLocal
    \/ CollectPeer
    \/ Validate
    \/ CheckDelta
    \/ AskClustered
    \/ AskDisks
    \/ AskNetwork
    \/ SetupCluster

InitListIdle ==
    /\ lpc = "idle"
    /\ lerr = NoError
    /\ lservices = {}
    /\ tpc = EmptyMap
    /\ tdata = EmptyMap
    /\ treply = EmptyMap
    /\ terr = EmptyMap
    /\ mu = "free"
    /\ allClusters = EmptyMap
    /\ printed = {}

Init == InitAdd /\ InitListIdle

Next == NextAdd

Spec == Init /\ [][Next]_vars

\* Run is sequential code and every call it makes returns: a step that can be
\* taken is taken
SpecLive == Init /\ [][Next]_vars /\ WF_vars(Next)

----------------------------------------------------------------------------
(* cmdServiceList.Run: what the backends can answer *)

ErrReady == "Failed to wait for MicroCloud to get ready"
ErrUninitialized == "MicroCloud is uninitialized, run 'microcloud init' first"
ErrClient == "Client failed"
\* an error for which StatusErrorCheck(err, http.StatusServiceUnavailable) holds
ErrUnavailable == "503 Service Unavailable"
ErrOther == "500 Internal Server Error"

\* the injective sequences that list the elements of S, each once
Orderings(S) ==
    {f \in [1..Cardinality(S) -> S] : \A i, j \in DOMAIN f : f[i] = f[j] => i = j}

TypeIndex(t) ==
    CASE t = MicroCloud -> 1
      [] t = LXD -> 2
      [] t = MicroCeph -> 3
      [] t = MicroOVN -> 4

\* the cluster member i of the backend of type t, columns as ordered codes:
\* name, address (or URL), role(s), status
ClusterMember(t, i) ==
    [Name |-> i, Address |-> TypeIndex(t) * 100 + i, Role |-> i % 2, Status |-> 1]

\* GetClusterMembers of a backend with the members ids, in any order
MemberLists(t, ids) ==
    {[i \in DOMAIN o |-> ClusterMember(t, o[i])] : o \in Orderings(ids)}

\* the member sets a backend can have
MemberSets == {1..k : k \in 0..MaxListMembers}

----------------------------------------------------------------------------
(* cmdServiceList.Run: the rows of a task, lines 147-154 and 167-173 *)

\* lines 150 and 169
Row(m) == <<m.Name, m.Address, m.Role, m.Status>>

\* cli.SortColumnsNaturally.Less: the first column that differs decides
RECURSIVE RowLess(_, _, _)
RowLess(a, b, col) ==
    IF col > Len(a) \/ col > Len(b) THEN FALSE
    ELSE IF a[col] # b[col] THEN a[col] < b[col]
    ELSE RowLess(a, b, col + 1)

\* the row r put in its place in the sorted rows
RECURSIVE Insert(_, _)
Insert(rows, r) ==
    IF rows = <<>> THEN <<r>>
    ELSE IF RowLess(r, Head(rows), 1) THEN <<r>> \o rows
    ELSE <<Head(rows)>> \o Insert(Tail(rows), r)

\* sort.Sort(cli.SortColumnsNaturally(data))
RECURSIVE SortRows(_)
SortRows(rows) ==
    IF rows = <<>> THEN <<>>
    ELSE Insert(SortRows(Tail(rows)), Head(rows))

\* lines 148-153 and 167-172: one row per member, sorted
MakeData(clusterMembers) ==
    SortRows([i \in DOMAIN clusterMembers |-> Row(clusterMembers[i])])

\* MicroData with every error of GetClusterMembers tolerated
MutMicroDataEveryErrorTolerated(clusterMembers, e) ==
    [return |-> FALSE, err |-> NoError,
     data |-> IF Len(clusterMembers) # 0 THEN MakeData(clusterMembers) ELSE <<>>]

\* MicroData without the StatusErrorCheck: every error is returned
MutMicroDataEveryErrorReturned(clusterMembers, e) ==
    IF e # NoError
    THEN [return |-> TRUE, err |-> e, data |-> <<>>]
    ELSE [return |-> FALSE, err |-> NoError,
          data |-> IF Len(clusterMembers) # 0 THEN MakeData(clusterMembers) ELSE <<>>]

\* lines 142-154: data of a microcluster Service from the answer of
\* GetClusterMembers; "return" when the task returns the error
MicroData(clusterMembers, e) ==
    IF e # NoError /\ e # ErrUnavailable
    THEN [return |-> TRUE, err |-> e, data |-> <<>>]
    ELSE [return |-> FALSE, err |-> NoError,
          data |-> IF Len(clusterMembers) # 0 THEN MakeData(clusterMembers) ELSE <<>>]

\* lines 162-173: data of the LXD Service from the answer of GetClusterMembers
LXDData(clusterMembers, e) ==
    IF e # NoError
    THEN [return |-> TRUE, err |-> e, data |-> <<>>]
    ELSE [return |-> FALSE, err |-> NoError, data |-> MakeData(clusterMembers)]

----------------------------------------------------------------------------
(* cmdServiceList.Run *)

\* what a backend answered to a call
Answer(call, e, ids) == [call |-> call, err |-> e, ids |-> ids]

InitList ==
    /\ lpc = "start"
    /\ lerr = NoError
    /\ lservices = {}
    /\ tpc = EmptyMap
    /\ tdata = EmptyMap
    /\ treply = EmptyMap
    /\ terr = EmptyMap
    /\ mu = "free"
    /\ allClusters = EmptyMap
    /\ printed = {}

ListAbort(e) ==
    /\ lpc' = "Aborted"
    /\ lerr' = e

\* lines 64-66
ListCheckArgs ==
    /\ lpc = "start"
    /\ UNCHANGED addVars
    /\ \E nargs \in 0..1 :
          lpc' = IF nargs # 0 THEN "Help" ELSE "app"
    /\ UNCHANGED <<lerr, lservices, tpc, tdata, treply, terr, mu, allClusters,
                   printed>>

\* a call of lines 69-87 whose only effect on Run is its error
ListSimpleStep(at, e, next) ==
    /\ lpc = at
    /\ UNCHANGED addVars
    /\ \E ok \in BOOLEAN :
          IF ok THEN lpc' = next /\ lerr' = lerr ELSE ListAbort(e)
    /\ UNCHANGED <<lservices, tpc, tdata, treply, terr, mu, allClusters,
                   printed>>

\* lines 69-72
ListApp == ListSimpleStep("app", ErrApp, "ready")

\* lines 74-77
ListReady == ListSimpleStep("ready", ErrReady, "status")

\* lines 80-83
ListStatus == ListSimpleStep("status", ErrStatus, "statusReady")

\* lines 85-87
ListStatusReady ==
    ListSimpleStep("statusReady", ErrUninitialized, "askMissingServices")

\* lines 89-116: the handler of the installed services; lines 118-121: the
\* mutex, the map and one task per Service
ListNewHandler ==
    /\ lpc = "askMissingServices"
    /\ UNCHANGED addVars
    /\ \/ /\ \E found \in SUBSET optionalServices :
                LET svc == {MicroCloud, LXD} \cup found IN
                /\ lservices' = svc
                /\ tpc' = [t \in svc |-> "client"]
                /\ tdata' = [t \in svc |-> <<>>]
                /\ treply' = [t \in svc |-> Answer("none", NoError, {})]
                /\ terr' = [t \in svc |-> NoError]
          /\ lpc' = "RunConcurrent"
          /\ lerr' = lerr
       \/ /\ \E e \in {ErrAskMissingServices, ErrNewHandler} : ListAbort(e)
          /\ UNCHANGED <<lservices, tpc, tdata, treply, terr>>
    /\ UNCHANGED <<mu, allClusters, printed>>

\* the task of t returns e
TaskReturn(t, e) ==
    /\ tpc' = [tpc EXCEPT ![t] = "done"]
    /\ terr' = [terr EXCEPT ![t] = e]

\* lines 126-139: the client of the Service
TaskClient(t) ==
    /\ lpc = "RunConcurrent"
    /\ tpc[t] = "client"
    /\ UNCHANGED addVars
    /\ \/ /\ tpc' = [tpc EXCEPT ![t] = IF t = LXD THEN "GetServer"
                                       ELSE "GetClusterMembers"]
          /\ UNCHANGED <<terr, treply>>
       \/ \E e \in {ErrClient, ErrUnavailable} :
             /\ TaskReturn(t, e)
             /\ treply' = [treply EXCEPT ![t] = Answer("Client", e, {})]
    /\ UNCHANGED <<lpc, lerr, lservices, tdata, mu, allClusters, printed>>

\* lines 141-154: a microcluster Service
TaskMicroMembers(t) ==
    /\ lpc = "RunConcurrent"
    /\ tpc[t] = "GetClusterMembers"
    /\ t # LXD
    /\ UNCHANGED addVars
    /\ \E ids \in MemberSets, e \in {NoError, ErrUnavailable, ErrOther} :
       \E clusterMembers \in MemberLists(t, IF e = NoError THEN ids ELSE {}) :
          LET r == MicroData(clusterMembers, e) IN
          /\ treply' = [treply EXCEPT ![t] =
                            Answer("GetClusterMembers", e,
                                   IF e = NoError THEN ids ELSE {})]
          /\ IF r.return
             THEN TaskReturn(t, r.err) /\ UNCHANGED tdata
             ELSE /\ tdata' = [tdata EXCEPT ![t] = r.data]
                  /\ tpc' = [tpc EXCEPT ![t] = "Lock"]
                  /\ UNCHANGED terr
    /\ UNCHANGED <<lpc, lerr, lservices, mu, allClusters, printed>>

\* lines 155-161: the LXD Service
TaskGetServer(t) ==
    /\ lpc = "RunConcurrent"
    /\ tpc[t] = "GetServer"
    /\ UNCHANGED addVars
    /\ \E e \in {NoError, ErrUnavailable, ErrOther}, ServerClustered \in BOOLEAN :
          /\ treply' = [treply EXCEPT ![t] = Answer("GetServer", e, {})]
          /\ IF e # NoError
             THEN TaskReturn(t, e)
             ELSE /\ tpc' = [tpc EXCEPT ![t] = IF ServerClustered
                                               THEN "lxd.GetClusterMembers"
                                               ELSE "Lock"]
                  /\ UNCHANGED terr
    /\ UNCHANGED <<lpc, lerr, lservices, tdata, mu, allClusters, printed>>

\* lines 162-173
TaskLXDMembers(t) ==
    /\ lpc = "RunConcurrent"
    /\ tpc[t] = "lxd.GetClusterMembers"
    /\ UNCHANGED addVars
    /\ \E ids \in MemberSets, e \in {NoError, ErrUnavailable, ErrOther} :
       \E clusterMembers \in MemberLists(t, IF e = NoError THEN ids ELSE {}) :
          LET r == LXDData(clusterMembers, e) IN
          /\ treply' = [treply EXCEPT ![t] =
                            Answer("GetClusterMembers", e,
                                   IF e = NoError THEN ids ELSE {})]
          /\ IF r.return
             THEN TaskReturn(t, r.err) /\ UNCHANGED tdata
             ELSE /\ tdata' = [tdata EXCEPT ![t] = r.data]
                  /\ tpc' = [tpc EXCEPT ![t] = "Lock"]
                  /\ UNCHANGED terr
    /\ UNCHANGED <<lpc, lerr, lservices, mu, allClusters, printed>>

\* TaskLock that does not wait for the mutex to be free
MutTaskLockNoWait(t) ==
    /\ lpc = "RunConcurrent"
    /\ tpc[t] = "Lock"
    /\ UNCHANGED addVars
    /\ mu' = t
    /\ tpc' = [tpc EXCEPT ![t] = "write"]
    /\ UNCHANGED <<lpc, lerr, lservices, tdata, treply, terr, allClusters, printed>>

\* line 176
TaskLock(t) ==
    /\ lpc = "RunConcurrent"
    /\ tpc[t] = "Lock"
    /\ UNCHANGED addVars
    /\ mu = "free"
    /\ mu' = t
    /\ tpc' = [tpc EXCEPT ![t] = "write"]
    /\ UNCHANGED <<lpc, lerr, lservices, tdata, treply, terr, allClusters, printed>>

\* StoreData with no entry made for a Service that has no rows
MutStoreDataSkipEmpty(clusters, t, data) ==
    IF Len(data) = 0 THEN clusters ELSE MapPut(clusters, t, data)

\* line 177: allClusters[s.Type()] = data
StoreData(clusters, t, data) == MapPut(clusters, t, data)

TaskWrite(t) ==
    /\ lpc = "RunConcurrent"
    /\ tpc[t] = "write"
    /\ UNCHANGED addVars
    /\ allClusters' = StoreData(allClusters, t, tdata[t])
    /\ tpc' = [tpc EXCEPT ![t] = "Unlock"]
    /\ UNCHANGED <<lpc, lerr, lservices, tdata, treply, terr, mu, printed>>

\* lines 178-180
TaskUnlock(t) ==
    /\ lpc = "RunConcurrent"
    /\ tpc[t] = "Unlock"
    /\ UNCHANGED addVars
    /\ mu' = "free"
    /\ TaskReturn(t, NoError)
    /\ UNCHANGED <<lpc, lerr, lservices, tdata, treply, allClusters, printed>>

\* Join that does not wait for the tasks still running
MutJoinNoWait ==
    /\ lpc = "RunConcurrent"
    /\ UNCHANGED addVars
    /\ IF \E t \in lservices : terr[t] # NoError
       THEN \E t \in lservices : terr[t] # NoError /\ ListAbort(terr[t])
       ELSE lpc' = "print" /\ lerr' = lerr
    /\ UNCHANGED <<lservices, tpc, tdata, treply, terr, mu, allClusters, printed>>


\* Handler.RunConcurrent returns once every task has returned, with the error
\* of one of the tasks that failed, if any; lines 182-184
Join ==
    /\ lpc = "RunConcurrent"
    /\ UNCHANGED addVars
    /\ \A t \in lservices : tpc[t] = "done"
    /\ IF \E t \in lservices : terr[t] # NoError
       THEN \E t \in lservices : terr[t] # NoError /\ ListAbort(terr[t])
       ELSE lpc' = "print" /\ lerr' = lerr
    /\ UNCHANGED <<lservices, tpc, tdata, treply, terr, mu, allClusters, printed>>

\* lines 186-193: one iteration of the loop over allClusters
PrintCluster ==
    /\ lpc = "print"
    /\ UNCHANGED addVars
    /\ \E serviceType \in DOMAIN allClusters \ printed :
          printed' = printed \cup {serviceType}
    /\ UNCHANGED <<lpc, lerr, lservices, tpc, tdata, treply, terr, mu, allClusters>>

\* line 195
ListReturn ==
    /\ lpc = "print"
    /\ UNCHANGED addVars
    /\ printed = DOMAIN allClusters
    /\ lpc' = "Done"
    /\ UNCHANGED <<lerr, lservices, tpc, tdata, treply, terr, mu, allClusters, printed>>

InitAddIdle ==
    /\ pc = "idle"
    /\ err = NoError
    /\ installedServices = {}
    /\ handler = [Name |-> "", Services |-> {}]
    /\ services = EmptyMap
    /\ state = EmptyMap
    /\ systems = EmptyMap
    /\ sysVisited = {}
    /\ valVisited = {}
    /\ askClusteredServices = EmptyMap
    /\ serviceMap = EmptyMap
    /\ calls = <<>>
    /\ confirmArg = EmptyMap

InitL == InitAddIdle /\ InitList

NextList ==
    \/ ListCheckArgs
    \/ ListApp
    \/ ListReady
    \/ ListStatus
    \/ ListStatusReady
    \/ ListNewHandler
    \/ \E t \in lservices : TaskClient(t)
    \/ \E t \in lservices : TaskMicroMembers(t)
    \/ \E t \in lservices : TaskGetServer(t)
    \/ \E t \in lservices : TaskLXDMembers(t)
    \/ \E t \in lservices : TaskLock(t)
    \/ \E t \in lservices : TaskWrite(t)
    \/ \E t \in lservices : TaskUnlock(t)
    \/ Join
    \/ PrintCluster
    \/ ListReturn

SpecList == InitL /\ [][NextList]_vars

----------------------------------------------------------------------------
(* Properties of the add workflow *)

Range(seq) == {seq[i] : i \in DOMAIN seq}

\* cfg.state is complete: the local node and every peer have been collected
AllCollected ==
    /\ pc \in {"collectPeers", "askClustered", "askDisks", "askNetwork",
               "setupCluster", "Done", "Aborted"}
    /\ LocalName \in DOMAIN state
    /\ sysVisited = DOMAIN systems

\* the loop of line 318 has examined every state and none failed line 320
GatePassed ==
    /\ AllCollected
    /\ valVisited = DOMAIN state
    /\ err # ErrInconsistent

\* the node n reports no member of type t
Unclustered(n, t) == MapLen(ExistingServices(state[n], t)) = 0

\* C1 as stated: once every state passed line 320, an optional type is a key
\* of askClusteredServices iff EVERY node of cfg.state reports an empty
\* membership for it.
C1_DeltaIffEveryNodeEmpty ==
    GatePassed =>
        \A t \in optionalServices :
            t \in DOMAIN askClusteredServices
                <=> \A n \in DOMAIN state : Unclustered(n, t)

\* C1 as amended: once every state passed line 320, an optional type is a key
\* of askClusteredServices iff AT LEAST ONE node of cfg.state reports an empty
\* membership for it; with MicroCeph empty on all nodes and MicroOVN non-empty
\* on one node and empty on another the keys are {MicroCeph, MicroOVN}.
C1_DeltaIffSomeNodeEmpty ==
    GatePassed =>
        /\ \A t \in optionalServices :
              t \in DOMAIN askClusteredServices
                  <=> \E n \in DOMAIN state : Unclustered(n, t)
        /\ ( /\ \A n \in DOMAIN state : Unclustered(n, MicroCeph)
             /\ \E n \in DOMAIN state : ~Unclustered(n, MicroOVN)
             /\ \E n \in DOMAIN state : Unclustered(n, MicroOVN) )
           => DOMAIN askClusteredServices = {MicroCeph, MicroOVN}

C1_Witness ==
    /\ GatePassed
    /\ \A n \in DOMAIN state : Unclustered(n, MicroCeph)
    /\ \E n \in DOMAIN state : ~Unclustered(n, MicroOVN)
    /\ \E n \in DOMAIN state : Unclustered(n, MicroOVN)
    /\ DOMAIN askClusteredServices = {MicroCeph, MicroOVN}

\* some node of cfg.state reports no LXD member, or a number of LXD members
\* other than the local node's
SomeNodeInconsistent ==
    \E n \in DOMAIN state :
        LET k == MapLen(ExistingServices(state[n], LXD)) IN
        k = 0 \/ k # MapLen(ExistingServices(state[LocalName], LXD))

\* C2: when cfg.state holds a node with zero LXD members or with an LXD member
\* count other than the local node's, no external phase is ever invoked, the
\* run can only end Aborted with the inconsistent-cluster error, and it has
\* done so once the loop has examined every node, in whatever order.
C2_InconsistentNeverReachesPhases ==
    (AllCollected /\ SomeNodeInconsistent) =>
        /\ calls = <<>>
        /\ pc \in {"collectPeers", "Aborted"}
        /\ pc = "Aborted" => err = ErrInconsistent
        /\ valVisited = DOMAIN state => pc = "Aborted"

C2_Witness ==
    /\ AllCollected
    /\ Cardinality(DOMAIN state) = 3
    /\ \E n \in DOMAIN state : MapLen(ExistingServices(state[n], LXD)) = 0
    /\ MapLen(ExistingServices(state[LocalName], LXD)) = 3
    /\ Cardinality(valVisited) = 3
    /\ pc = "Aborted"
    /\ err = ErrInconsistent
    /\ calls = <<>>

\* C3: once every state passed line 320, an empty askClusteredServices makes
\* the run end Aborted with "All services have already been set up" with no
\* external phase invoked; this is the case whenever every optional type has
\* members on every node of cfg.state.
C3_EmptyDeltaIsAlreadySetUp ==
    GatePassed =>
        /\ MapLen(askClusteredServices) = 0 =>
              /\ calls = <<>>
              /\ pc \in {"collectPeers", "Aborted"}
              /\ pc = "Aborted" => err = ErrAlreadySetUp
        /\ (\A t \in optionalServices : \A n \in DOMAIN state : ~Unclustered(n, t))
              => MapLen(askClusteredServices) = 0

C3_Witness ==
    /\ GatePassed
    /\ Cardinality(DOMAIN state) >= 2
    /\ \A t \in optionalServices : \A n \in DOMAIN state : ~Unclustered(n, t)
    /\ pc = "Aborted"
    /\ err = ErrAlreadySetUp
    /\ calls = <<>>

\* the place of an external phase in the fixed order
PhaseRank(name) ==
    CASE name = "askClustered" -> 1
      [] name = "askDisks" -> 2
      [] name = "askNetwork" -> 3
      [] name = "setupCluster" -> 4

\* a, b and c share a 3-member LXD cluster, no MicroCeph or MicroOVN clustered
ThreeNodeScenario ==
    /\ DOMAIN state = {"a", "b", "c"}
    /\ \A n \in DOMAIN state :
          /\ MapLen(ExistingServices(state[n], LXD)) = 3
          /\ Unclustered(n, MicroCeph)
          /\ Unclustered(n, MicroOVN)

ErrorOfStep ==
    CASE pc = "checkInitialized" -> {ErrCheckInitialized}
      [] pc = "app" -> {ErrApp}
      [] pc = "status" -> {ErrStatus}
      [] pc = "askAddress" -> {ErrAskAddress}
      [] pc = "askMissingServices" -> {ErrAskMissingServices}
      [] pc = "newHandler" -> {ErrNewHandler}
      [] pc = "getVersion" ->
            IF DOMAIN services = handler.Services
            THEN {ErrCollectLocal} ELSE {ErrGetVersion}
      [] pc = "collectPeers" ->
            IF sysVisited # DOMAIN systems THEN {ErrCollectPeer}
            ELSE IF valVisited # DOMAIN state THEN {ErrInconsistent}
            ELSE {ErrAlreadySetUp}
      [] pc = "askClustered" -> {ErrAskClustered}
      [] pc = "askDisks" -> {ErrAskDisks}
      [] pc = "askNetwork" -> {ErrAskNetwork}
      [] pc = "setupCluster" -> {ErrSetupCluster}
      [] OTHER -> {}

\* the external phase the step Run is at invokes, if any
PhaseOfStep ==
    IF pc \in {"askClustered", "askDisks", "askNetwork", "setupCluster"}
    THEN {Append(calls, pc)} ELSE {calls}

\* C5: a step that fails ends the run: Run is Aborted with the error of that
\* step, having invoked at most the phase that failed; an error is never kept
\* while Run goes on; and nothing (no step, no phase, no rollback) happens
\* once Run is Aborted.
C5_FailureAbortsAtOnce ==
    [][ /\ pc # "Aborted"
        /\ err = NoError
        /\ err' # NoError => pc' = "Aborted"
        /\ pc' = "Aborted" =>
              /\ err' \in ErrorOfStep
              /\ calls' \in PhaseOfStep
              /\ state' = state ]_vars

C5_Witness ==
    /\ pc = "Aborted"
    /\ err = ErrAskNetwork
    /\ calls = <<"askClustered", "askDisks", "askNetwork">>

\* C6 as stated: in a run that ends Done, askDisks was invoked iff MicroCeph is
\* a key of the delta handed to askClustered, and askNetwork iff MicroOVN is.
C6_PhasesAreTheDeltaKeys ==
    pc = "Done" =>
        /\ "askDisks" \in Range(calls) <=> MicroCeph \in DOMAIN confirmArg
        /\ "askNetwork" \in Range(calls) <=> MicroOVN \in DOMAIN confirmArg

\* every optional type that is installed has members on every node
InstalledAllClustered ==
    \A t \in optionalServices \cap installedServices :
        \A n \in DOMAIN state : ~Unclustered(n, t)

\* C7 as stated: a type that is not installed on the local node is never a key
\* of the delta handed to askClustered, and once every state passed line 320
\* with every installed optional type clustered on every node, the run does
\* not get past the already-configured check.
C7_NotInstalledNeverInDelta ==
    /\ calls # <<>> => DOMAIN confirmArg \subseteq installedServices
    /\ (GatePassed /\ InstalledAllClustered) =>
          /\ calls = <<>>
          /\ pc \in {"collectPeers", "Aborted"}

\* the outcome of the validation: its error, or else the delta
Outcome(acc) ==
    IF acc.err # NoError THEN [err |-> acc.err] ELSE [delta |-> acc.ask]

\* the validation of this run is over
ValidationOver ==
    /\ AllCollected
    /\ \/ pc \in {"askClustered", "askDisks", "askNetwork", "setupCluster", "Done"}
       \/ pc = "Aborted" /\ valVisited # {}

\* the outcome of the validation of this run
RunOutcome ==
    IF err \in {ErrInconsistent, ErrAlreadySetUp}
    THEN [err |-> err] ELSE [delta |-> askClusteredServices]

\* C9: on the same cfg.state, lines 316-337 give the same outcome (the same
\* error, or the same keys and versions) for every order in which the states
\* are ranged over, and that is the outcome of the run.
C9_ValidatorOrderIndependent ==
    AllCollected =>
        LET orders == Orderings(DOMAIN state)
            first == CHOOSE o \in orders : TRUE
            want == Outcome(Validator(state, first, handler.Name, services))
        IN  /\ valVisited = {} =>
                \A o \in orders :
                    Outcome(Validator(state, o, handler.Name, services)) = want
            /\ ValidationOver => RunOutcome = want

C9_Witness ==
    /\ ValidationOver
    /\ pc = "askClustered"
    /\ Cardinality(DOMAIN state) = 3
    /\ \E n, m \in DOMAIN state :
          /\ Unclustered(n, MicroCeph) /\ ~Unclustered(m, MicroCeph)
          /\ ~Unclustered(n, MicroOVN) /\ Unclustered(m, MicroOVN)
    /\ DOMAIN askClusteredServices = {MicroCeph, MicroOVN}

----------------------------------------------------------------------------
(* Properties of the list workflow *)

\* the backend of t answered a call of the task with an unavailable error
AnsweredUnavailable(t) == treply[t].err = ErrUnavailable

\* the task of t has no error and the entry of t in allClusters is empty
EmptyResult(t) ==
    /\ terr[t] = NoError
    /\ t \in DOMAIN allClusters
    /\ Len(allClusters[t]) = 0

\* C8 as stated: for every Service type, LXD included, an unavailable error
\* answered by the Service's backend to a query of the task gives an empty
\* entry under the Service's key and no error of the task.
C8_UnavailableIsEmptyForEveryType ==
    \A t \in lservices :
        (tpc[t] = "done" /\ AnsweredUnavailable(t) /\ treply[t].call # "Client")
            => EmptyResult(t)

\* C8 as amended: for MicroCloud, MicroCeph and MicroOVN an unavailable error
\* of GetClusterMembers gives an empty entry under the Service's key and no
\* error of the task, and the listing call never returns that error; for LXD,
\* and for the client acquisition of any type, an unavailable error is the
\* error of the task and the Service gets no entry; an LXD whose server is not
\* clustered gets the empty entry.
C8_UnavailableIsEmptyForMicrocluster ==
    /\ \A t \in lservices :
          (tpc[t] = "done" /\ AnsweredUnavailable(t)) =>
              IF t # LXD /\ treply[t].call = "GetClusterMembers"
              THEN EmptyResult(t)
              ELSE terr[t] = ErrUnavailable /\ t \notin DOMAIN allClusters
    /\ lerr = ErrUnavailable =>
          \E t \in lservices :
              /\ terr[t] = ErrUnavailable
              /\ t = LXD \/ treply[t].call = "Client"
    /\ (LXD \in lservices /\ tpc[LXD] = "done" /\ treply[LXD] = Answer("GetServer", NoError, {}))
          => EmptyResult(LXD)

C8_Witness ==
    /\ lpc = "Done"
    /\ lerr = NoError
    /\ \A t \in lservices \ {LXD} :
          /\ treply[t].call = "GetClusterMembers"
          /\ AnsweredUnavailable(t)
          /\ EmptyResult(t)
    /\ lservices = ServiceTypes

\* the rows of the members ids of the backend of t, by name
RECURSIVE RowsOf(_, _)
RowsOf(t, ids) ==
    IF ids = {} THEN <<>>
    ELSE LET last == CHOOSE i \in ids : \A j \in ids : j <= i
         IN  Append(RowsOf(t, ids \ {last}), Row(ClusterMember(t, last)))

\* C10: when RunConcurrent has returned no error, allClusters has exactly one
\* entry per Service of the handler, and the entry of a Service holds the
\* rows of the members its own backend reported.
C10_OneEntryPerService ==
    lpc \in {"print", "Done"} =>
        /\ DOMAIN allClusters = lservices
        /\ Cardinality(DOMAIN allClusters) = Cardinality(lservices)
        /\ \A t \in lservices : allClusters[t] = RowsOf(t, treply[t].ids)

C10_Witness ==
    /\ lpc = "Done"
    /\ lservices = ServiceTypes
    /\ \A t \in lservices : Len(allClusters[t]) = MaxListMembers
    /\ \A t \in lservices : allClusters[t][1][2] = TypeIndex(t) * 100 + 1

----------------------------------------------------------------------------
(* Properties of the add workflow: collection *)

\* the loop of line 303 is over: the loop of line 318 starts or is running
ValidationStarted ==
    /\ pc = "collectPeers"
    /\ sysVisited = DOMAIN systems

\* C11 as stated: when the loop of line 318 starts, cfg.state has an entry
\* for the local node and for every key of cfg.systems.
C11_EveryCandidateCollected ==
    ValidationStarted =>
        /\ LocalName \in DOMAIN state
        /\ DOMAIN systems \subseteq DOMAIN state

\* C11 as amended: when the loop of line 318 starts, cfg.state has an entry
\* for the local node and for every key of cfg.systems that is not the empty
\* name, and while that loop runs cfg.state and cfg.systems do not change.
C11_EveryNamedCandidateCollected ==
    [][ /\ ValidationStarted' =>
              /\ LocalName \in DOMAIN state'
              /\ (DOMAIN systems' \ {""}) \subseteq DOMAIN state'
        /\ ValidationStarted => (state' = state /\ systems' = systems) ]_vars

C11_Witness ==
    /\ ValidationStarted
    /\ valVisited = {}
    /\ DOMAIN systems = {"", "a", "b", "c"}
    /\ DOMAIN state = {"a", "b", "c"}

----------------------------------------------------------------------------
(* Properties of the list workflow: the mutex and the join *)

\* the tasks between mu.Lock() and mu.Unlock(), lines 176-178
InWriteSection == {t \in lservices : tpc[t] \in {"write", "Unlock"}}

\* C12: at most one task is between mu.Lock() and mu.Unlock(); the holder of
\* the mutex is exactly the task in that section, so the mutex is held only
\* around the write of line 177 and its holder is never at a client
\* acquisition or a backend query.
C12_MapWritesMutuallyExclusive ==
    /\ Cardinality(InWriteSection) <= 1
    /\ mu \in lservices \cup {"free"}
    /\ \A t \in lservices : t \in InWriteSection <=> mu = t
    /\ \A t \in lservices :
          tpc[t] \in {"client", "GetServer", "GetClusterMembers",
                      "lxd.GetClusterMembers", "Lock", "done"} => mu # t

C12_Witness ==
    \E t, u, v \in lservices :
        /\ mu = t
        /\ tpc[t] = "write"
        /\ tpc[u] = "Lock"
        /\ tpc[v] = "GetClusterMembers"

\* C13: the loop of lines 186-193 reads allClusters only once every task has
\* returned and the mutex is free, and from then on no task runs and
\* allClusters is not written.
C13_ReadOnlyAfterJoin ==
    [][ /\ lpc' \in {"print", "Done"} =>
              /\ \A t \in lservices' : tpc'[t] = "done"
              /\ mu' = "free"
        /\ printed' # {} => lpc' \in {"print", "Done"}
        /\ lpc \in {"print", "Done"} =>
              (allClusters' = allClusters /\ tpc' = tpc /\ tdata' = tdata) ]_vars

C13_Witness ==
    /\ lpc = "print"
    /\ lservices = ServiceTypes
    /\ Cardinality(printed) = 2
    /\ \A t \in lservices : tpc[t] = "done"
    /\ \E t \in lservices : Len(allClusters[t]) = 2

\* the backend of t answered with an error that line 143 does not tolerate
AnsweredFatal(t) ==
    /\ treply[t].err # NoError
    /\ ~(t # LXD /\ treply[t].call = "GetClusterMembers"
                 /\ treply[t].err = ErrUnavailable)

\* C14: a task whose client acquisition failed, or whose query failed with an
\* error that is not the tolerated 503, returns an error; and when some task
\* has returned an error the listing call can only end Aborted with a non-nil
\* error, no entry of allClusters being reported.
C14_TaskErrorFailsListing ==
    /\ \A t \in lservices :
          (tpc[t] = "done" /\ AnsweredFatal(t)) => terr[t] = treply[t].err
    /\ (\E t \in lservices : terr[t] # NoError) =>
          /\ lpc \in {"RunConcurrent", "Aborted"}
          /\ printed = {}
          /\ lpc = "Aborted" => lerr # NoError

C14_Witness ==
    /\ lpc = "Aborted"
    /\ lerr = ErrOther
    /\ printed = {}
    /\ DOMAIN allClusters # {}
    /\ \E t \in lservices \ {LXD} :
          /\ treply[t] = Answer("GetClusterMembers", ErrOther, {})
          /\ terr[t] = ErrOther

\* the workflow state of spec section "States" a position of Run belongs to
StateRank ==
    CASE pc \in {"start", "checkInitialized", "app", "status", "askAddress",
                 "askMissingServices", "newHandler"} -> 0   \* Discovering
      [] pc = "getVersion" -> 1                             \* Collecting
      [] pc = "collectPeers" /\ ~ValidationStarted -> 1     \* Collecting
      [] pc = "collectPeers" /\ ValidationStarted -> 2      \* Validating
      [] pc = "askClustered" -> 3                           \* Confirming
      [] pc \in {"askDisks", "askNetwork"} -> 4             \* SettingUp
      [] pc = "setupCluster" -> 5                           \* Joining
      [] OTHER -> 6                                         \* Done, Aborted

Terminal == pc \in {"Done", "Aborted"}

\* C15: no step of the add workflow takes it to an earlier state, Done and
\* Aborted are left by no step, Done is reached without an error and Aborted
\* with one, and a run that has passed the argument check eventually reaches
\* Done or Aborted when every step that can be taken is taken.
C15_ForwardToOneTerminal ==
    /\ [][ /\ StateRank' >= StateRank
           /\ Terminal => pc' = pc
           /\ pc' = "Done" => err' = NoError
           /\ pc' = "Aborted" => err' # NoError ]_vars
    /\ (pc = "checkInitialized") ~> Terminal

C15_Witness ==
    /\ pc = "Done"
    /\ err = NoError
    /\ calls = <<"askClustered", "askDisks", "askNetwork", "setupCluster">>
    /\ DOMAIN state = {"a", "b", "c"}

\* the member names of the local node's MicroCloud membership
LocalCloudNames == DOMAIN ExistingServices(state[LocalName], MicroCloud)

\* C16: when the validation starts the keys of cfg.state are the local node
\* and the non-empty member names of the local node's MicroCloud membership,
\* and every step that changes cfg.state adds one node that had no entry and
\* leaves the entries already collected as they are (no node, the local one
\* included, is collected twice).
C16_CandidatesFromLocalMembership ==
    [][ /\ ValidationStarted' =>
              DOMAIN state' =
                 {LocalName} \cup
                 (DOMAIN ExistingServices(state'[LocalName], MicroCloud) \ {""})
        /\ state' # state =>
              \E n \in DOMAIN state' \ DOMAIN state :
                 /\ DOMAIN state' = DOMAIN state \cup {n}
                 /\ \A k \in DOMAIN state : state'[k] = state[k] ]_vars

C16_Witness ==
    /\ ValidationStarted
    /\ LocalCloudNames = {"a", "b", "c"}
    /\ DOMAIN state = {"a", "b", "c"}
    /\ sysVisited = {"a", "b", "c"}
    /\ valVisited = {"a"}

\* C17: every system of cfg.systems carries the version map built from the
\* local node's services, and the version recorded in askClusteredServices
\* for a type is the entry of that map for the type (the version GetVersion
\* gave on the local node when the type is installed there), whichever node's
\* empty membership put the type in.
C17_DeltaVersionIsLocalVersion ==
    /\ \A n \in DOMAIN systems : systems[n].ServerInfo.Services = services
    /\ \A t \in DOMAIN services : services[t] = GetVersion(t)
    /\ \A t \in DOMAIN askClusteredServices :
          /\ askClusteredServices[t] = MapGet(services, t, "")
          /\ t \in handler.Services => askClusteredServices[t] = GetVersion(t)

C17_Witness ==
    /\ pc = "askClustered"
    /\ DOMAIN askClusteredServices = {MicroCeph, MicroOVN}
    /\ askClusteredServices[MicroCeph] = GetVersion(MicroCeph)
    /\ askClusteredServices[MicroOVN] = GetVersion(MicroOVN)
    /\ MapLen(ExistingServices(state[LocalName], MicroCeph)) > 0
    /\ MapLen(ExistingServices(state[LocalName], MicroOVN)) > 0
    /\ \E n \in DOMAIN state \ {LocalName} :
          /\ MapLen(ExistingServices(state[n], MicroCeph)) = 0
          /\ MapLen(ExistingServices(state[n], MicroOVN)) = 0

====
